---- MODULE Spec2Model ----
(***************************************************************************)
(* Co-op placement portal: the eligibility evaluator (check_eligibility)   *)
(* and the lifecycle of Application / Selection / CoopEligibility /        *)
(* CoopRecord rows driven by the Flask request handlers of app.py.         *)
(*                                                                         *)
(* Tables are sequences of rows; a row's primary key is its index (ids are *)
(* issued in insertion order and no handler deletes a row).  A GPA is kept *)
(* in tenths (2.0 is 20).  A nullable column or a form field that may be   *)
(* missing is an optional value: None or Some(v).                          *)
(***************************************************************************)
EXTENDS Integers, Sequences, FiniteSets, TLC

VARIABLES students, employers, faculty, job_positions, applications,
          selections, coop_eligibility, coop_records, outbox, last, evalc, nreq, console_ok, inflight

db == <<students, employers, faculty, job_positions, applications,
        selections, coop_eligibility, coop_records>>

vars == <<students, employers, faculty, job_positions, applications,
          selections, coop_eligibility, coop_records, outbox, last, evalc, nreq, console_ok, inflight>>

----------------------------------------------------------------------------
(* Optional values and Python truthiness *)

None == [some |-> FALSE, val |-> 0]

Some(v) == [some |-> TRUE, val |-> v]

\* Python truth value of an optional integer: None and 0 are falsy
Truthy(x) == x.some /\ x.val # 0

\* "x or 0" on an optional integer
OrZero(x) == IF Truthy(x) THEN x.val ELSE 0

----------------------------------------------------------------------------
(* Eligibility evaluator *)

MinGpa == 20

MinWeeks == 7

MinHours == 140

\* Student must have at least a 2.0 GPA
gpa_ok_strict(student) == student.gpa.some /\ student.gpa.val > MinGpa

gpa_ok(student) == student.gpa.some /\ student.gpa.val >= MinGpa

\* Internship must run for at least 7 weeks
weeks_ok(position) == position.weeks.some /\ position.weeks.val >= MinWeeks

\* Stored total_hours if any, otherwise weeks * hours per week
hours_derived_only(position) ==
    IF Truthy(position.weeks) /\ Truthy(position.hours_per_week)
    THEN position.weeks.val * position.hours_per_week.val
    ELSE OrZero(position.total_hours)

hours(position) ==
    LET stored == OrZero(position.total_hours)
    IN  IF stored = 0 /\ Truthy(position.weeks) /\ Truthy(position.hours_per_week)
        THEN position.weeks.val * position.hours_per_week.val
        ELSE stored

hours_ok(position) == hours(position) >= MinHours

\* Placeholder check, the same on both branches
semesters_ok(student) ==
    IF student.is_transfer
    THEN student.start_year.some
    ELSE student.start_year.some

\* an evaluator with hidden state: only the first evaluation can pass
check_eligibility_first_only(student, position) ==
    [is_eligible |-> gpa_ok(student) /\ weeks_ok(position) /\ hours_ok(position)
                       /\ semesters_ok(student) /\ coop_eligibility = <<>>,
     gpa_ok |-> gpa_ok(student), weeks_ok |-> weeks_ok(position),
     hours_ok |-> hours_ok(position), semesters_ok |-> semesters_ok(student)]

check_eligibility_no_semesters(student, position) ==
    [is_eligible |-> gpa_ok(student) /\ weeks_ok(position) /\ hours_ok(position),
     gpa_ok |-> gpa_ok(student), weeks_ok |-> weeks_ok(position),
     hours_ok |-> hours_ok(position), semesters_ok |-> semesters_ok(student)]

check_eligibility(student, position) ==
    [is_eligible |-> gpa_ok(student) /\ weeks_ok(position) /\ hours_ok(position)
                       /\ semesters_ok(student),
     gpa_ok |-> gpa_ok(student), weeks_ok |-> weeks_ok(position),
     hours_ok |-> hours_ok(position), semesters_ok |-> semesters_ok(student)]

----------------------------------------------------------------------------
(* Bounds of the model *)

\* Number of requests served in a run
MaxRequests == 7

----------------------------------------------------------------------------
(* Request inputs *)

\* String columns that are NULL
NoneStr == "None"

\* int(request.form.get(k) or 0): a missing field is stored as 0
FormInt(x) == IF x.some THEN x.val ELSE 0

\* float(request.form.get("gpa") or 0), in tenths
FormFloat(x) == IF x.some THEN x.val ELSE 0

\* bool(request.form.get("is_transfer")): a ticked checkbox sends a value
FormBool(x) == x.some

StudentForms ==
    { [email |-> "s1", department |-> "CS", gpa |-> Some(30),
       start_year |-> Some(2022), is_transfer |-> None],
      [email |-> "s2", department |-> "EE", gpa |-> Some(19),
       start_year |-> None, is_transfer |-> Some(1)],
      [email |-> "s2", department |-> "CS", gpa |-> None,
       start_year |-> Some(2022), is_transfer |-> Some(1)] }

EmployerForms == { [email |-> "e1"], [email |-> "e2"] }

FacultyForms ==
    { [email |-> "f1", department |-> "CS"],
      [email |-> "f2", department |-> "CS"],
      [email |-> "f2", department |-> "EE"] }

PositionForms ==
    { [weeks |-> Some(10), hours_per_week |-> Some(15)],
      [weeks |-> Some(7), hours_per_week |-> None] }

SummaryActions == {"submit", "draft"}

SummaryTexts == {"report"}

ApprovalForms == {"Approved", "Rejected", NoneStr}

GradeForms == {"A", "B"}

Methods == {"GET", "POST"}

----------------------------------------------------------------------------
(* Initial state: db.create_all() on an empty database.  console_ok tells   *)
(* whether the print calls of send_email succeed; the portal never changes *)
(* it, and Spec runs with a working console.                               *)

NoVerdict ==
    [is_eligible |-> FALSE, gpa_ok |-> FALSE, weeks_ok |-> FALSE,
     hours_ok |-> FALSE, semesters_ok |-> FALSE]

IdleEval ==
    [student |-> [gpa |-> None, start_year |-> None, is_transfer |-> FALSE],
     position |-> [weeks |-> None, hours_per_week |-> None, total_hours |-> None],
     called |-> FALSE, result |-> NoVerdict]

\* Response of a request whose handler raised: no flash, no redirect
InternalServerError == "500 Internal Server Error"

Response(op, actor, arg, flash) ==
    [op |-> op, actor |-> actor, arg |-> arg, flash |-> flash]

EmptyDb ==
    /\ students = <<>>
    /\ employers = <<>>
    /\ faculty = <<>>
    /\ job_positions = <<>>
    /\ applications = <<>>
    /\ selections = <<>>
    /\ coop_eligibility = <<>>
    /\ coop_records = <<>>
    /\ outbox = <<>>
    /\ last = Response("start", 0, 0, "")

Init ==
    /\ EmptyDb
    /\ evalc = IdleEval
    /\ nreq = 0
    /\ console_ok = TRUE
    /\ inflight = <<>>

\* Primary keys of a table
Ids(table) == DOMAIN table

\* One request is served
Serve == nreq < MaxRequests /\ nreq' = nreq + 1

----------------------------------------------------------------------------
(* Registration *)

\* registration that stores the form fields as they came
register_student_raw(form) ==
    /\ Serve
    /\ IF \E i \in Ids(students) : students[i].email = form.email
       THEN /\ last' = Response("register_student", 0, 0, "Email already registered.")
            /\ UNCHANGED students
       ELSE /\ students' = Append(students,
                   [email |-> form.email,
                    department |-> form.department,
                    gpa |-> form.gpa,
                    start_year |-> form.start_year,
                    is_transfer |-> FormBool(form.is_transfer)])
            /\ last' = Response("register_student", 0, Len(students) + 1,
                                "Student registered. You can now log in.")
    /\ UNCHANGED <<employers, faculty, job_positions, applications, selections,
                   coop_eligibility, coop_records, outbox, evalc, console_ok, inflight>>

register_student(form) ==
    /\ Serve
    /\ IF \E i \in Ids(students) : students[i].email = form.email
       THEN /\ last' = Response("register_student", 0, 0, "Email already registered.")
            /\ UNCHANGED students
       ELSE /\ students' = Append(students,
                   [email |-> form.email,
                    department |-> form.department,
                    gpa |-> Some(FormFloat(form.gpa)),
                    start_year |-> Some(FormInt(form.start_year)),
                    is_transfer |-> FormBool(form.is_transfer)])
            /\ last' = Response("register_student", 0, Len(students) + 1,
                                "Student registered. You can now log in.")
    /\ UNCHANGED <<employers, faculty, job_positions, applications, selections,
                   coop_eligibility, coop_records, outbox, evalc, console_ok, inflight>>

register_employer(form) ==
    /\ Serve
    /\ IF \E i \in Ids(employers) : employers[i].email = form.email
       THEN /\ last' = Response("register_employer", 0, 0, "Email already registered.")
            /\ UNCHANGED employers
       ELSE /\ employers' = Append(employers, [email |-> form.email])
            /\ last' = Response("register_employer", 0, Len(employers) + 1,
                                "Employer registered. You can now log in.")
    /\ UNCHANGED <<students, faculty, job_positions, applications, selections,
                   coop_eligibility, coop_records, outbox, evalc, console_ok, inflight>>

\* registration that only checks the email
register_faculty_email_only(form) ==
    /\ Serve
    /\ IF \E i \in Ids(faculty) : faculty[i].email = form.email
       THEN /\ last' = Response("register_faculty", 0, 0, "Email already registered.")
            /\ UNCHANGED faculty
       ELSE /\ faculty' = Append(faculty,
                   [email |-> form.email, department |-> form.department])
            /\ last' = Response("register_faculty", 0, Len(faculty) + 1,
                                "Faculty registered. You can now log in.")
    /\ UNCHANGED <<students, employers, job_positions, applications, selections,
                   coop_eligibility, coop_records, outbox, evalc, console_ok, inflight>>

register_faculty(form) ==
    /\ Serve
    /\ IF \E i \in Ids(faculty) : faculty[i].department = form.department
       THEN /\ last' = Response("register_faculty", 0, 0,
                                "A co-op coordinator already exists for this department.")
            /\ UNCHANGED faculty
       ELSE IF \E i \in Ids(faculty) : faculty[i].email = form.email
       THEN /\ last' = Response("register_faculty", 0, 0, "Email already registered.")
            /\ UNCHANGED faculty
       ELSE /\ faculty' = Append(faculty,
                   [email |-> form.email, department |-> form.department])
            /\ last' = Response("register_faculty", 0, Len(faculty) + 1,
                                "Faculty registered. You can now log in.")
    /\ UNCHANGED <<students, employers, job_positions, applications, selections,
                   coop_eligibility, coop_records, outbox, evalc, console_ok, inflight>>

----------------------------------------------------------------------------
(* Relationships of an Application (uselist=False): the related rows.  When *)
(* several rows reference the application the ORM hands back one of them.   *)

EligibilitiesOf(a) == { i \in Ids(coop_eligibility) : coop_eligibility[i].application_id = a }

CoopRecordsOf(a) == { i \in Ids(coop_records) : coop_records[i].application_id = a }

SelectionsOf(a) == { i \in Ids(selections) : selections[i].application_id = a }

----------------------------------------------------------------------------
(* Student routes *)

\* apply whose duplicate check skips withdrawn applications
apply_to_position_live_only(s, p) ==
    /\ Serve
    /\ s \in Ids(students)
    /\ p \in Ids(job_positions)
    /\ IF \E i \in Ids(applications) :
              /\ applications[i].student_id = s
              /\ applications[i].position_id = p
              /\ applications[i].status # "Withdrawn"
       THEN /\ last' = Response("apply", s, p, "You already applied to this position.")
            /\ UNCHANGED applications
       ELSE /\ applications' = Append(applications,
                   [student_id |-> s, position_id |-> p, status |-> "Pending"])
            /\ last' = Response("apply", s, p, "Application submitted.")
    /\ UNCHANGED <<students, employers, faculty, job_positions, selections,
                   coop_eligibility, coop_records, outbox, evalc, console_ok, inflight>>

\* apply without the duplicate check
apply_to_position_unchecked(s, p) ==
    /\ Serve
    /\ s \in Ids(students)
    /\ p \in Ids(job_positions)
    /\ applications' = Append(applications,
           [student_id |-> s, position_id |-> p, status |-> "Pending"])
    /\ last' = Response("apply", s, p, "Application submitted.")
    /\ UNCHANGED <<students, employers, faculty, job_positions, selections,
                   coop_eligibility, coop_records, outbox, evalc, console_ok, inflight>>

apply_to_position(s, p) ==
    /\ Serve
    /\ s \in Ids(students)
    /\ p \in Ids(job_positions)
    /\ IF \E i \in Ids(applications) :
              /\ applications[i].student_id = s
              /\ applications[i].position_id = p
       THEN /\ last' = Response("apply", s, p, "You already applied to this position.")
            /\ UNCHANGED applications
       ELSE /\ applications' = Append(applications,
                   [student_id |-> s, position_id |-> p, status |-> "Pending"])
            /\ last' = Response("apply", s, p, "Application submitted.")
    /\ UNCHANGED <<students, employers, faculty, job_positions, selections,
                   coop_eligibility, coop_records, outbox, evalc, console_ok, inflight>>

\* withdraw that reopens the position
withdraw_application_reopens(s, a) ==
    /\ Serve
    /\ s \in Ids(students)
    /\ a \in Ids(applications)
    /\ IF applications[a].student_id # s
       THEN /\ last' = Response("withdraw", s, a, "")
            /\ UNCHANGED <<applications, job_positions>>
       ELSE /\ applications' = [applications EXCEPT ![a].status = "Withdrawn"]
            /\ job_positions' =
                   [job_positions EXCEPT ![applications[a].position_id].status = "Open"]
            /\ last' = Response("withdraw", s, a, "Application withdrawn.")
    /\ UNCHANGED <<students, employers, faculty, selections,
                   coop_eligibility, coop_records, outbox, evalc, console_ok, inflight>>

\* withdraw without the ownership check
withdraw_application_anyone(s, a) ==
    /\ Serve
    /\ s \in Ids(students)
    /\ a \in Ids(applications)
    /\ applications' = [applications EXCEPT ![a].status = "Withdrawn"]
    /\ last' = Response("withdraw", s, a, "Application withdrawn.")
    /\ UNCHANGED <<students, employers, faculty, job_positions, selections,
                   coop_eligibility, coop_records, outbox, evalc, console_ok, inflight>>

withdraw_application(s, a) ==
    /\ Serve
    /\ s \in Ids(students)
    /\ a \in Ids(applications)
    /\ IF applications[a].student_id # s
       THEN /\ last' = Response("withdraw", s, a, "")
            /\ UNCHANGED applications
       ELSE /\ applications' = [applications EXCEPT ![a].status = "Withdrawn"]
            /\ last' = Response("withdraw", s, a, "Application withdrawn.")
    /\ UNCHANGED <<students, employers, faculty, job_positions, selections,
                   coop_eligibility, coop_records, outbox, evalc, console_ok, inflight>>

\* interest recorded without looking at the eligibility
indicate_interest_unguarded(s, a) ==
    /\ Serve
    /\ s \in Ids(students)
    /\ a \in Ids(applications)
    /\ IF applications[a].student_id # s
       THEN /\ last' = Response("interest", s, a, "")
            /\ UNCHANGED coop_records
       ELSE /\ IF CoopRecordsOf(a) = {}
               THEN coop_records' = Append(coop_records,
                        [application_id |-> a, student_id |-> s,
                         position_id |-> applications[a].position_id,
                         eligibility_id |-> None, faculty_id |-> None,
                         student_interested |-> TRUE,
                         summary_text |-> NoneStr, summary_status |-> "Draft",
                         employer_approval |-> "Pending",
                         faculty_grade |-> NoneStr])
               ELSE \E c \in CoopRecordsOf(a) :
                        coop_records' = [coop_records EXCEPT ![c].student_interested = TRUE]
            /\ last' = Response("interest", s, a,
                   "Your interest in co-op credit has been recorded.")
    /\ UNCHANGED <<students, employers, faculty, job_positions, applications,
                   selections, coop_eligibility, outbox, evalc, console_ok, inflight>>

indicate_interest(s, a) ==
    /\ Serve
    /\ s \in Ids(students)
    /\ a \in Ids(applications)
    /\ IF applications[a].student_id # s
       THEN /\ last' = Response("interest", s, a, "")
            /\ UNCHANGED coop_records
       ELSE IF EligibilitiesOf(a) = {}
       THEN /\ last' = Response("interest", s, a,
                   "You are not marked as eligible for co-op for this position.")
            /\ UNCHANGED coop_records
       ELSE \E el \in EligibilitiesOf(a) :
            IF ~coop_eligibility[el].is_eligible
            THEN /\ last' = Response("interest", s, a,
                        "You are not marked as eligible for co-op for this position.")
                 /\ UNCHANGED coop_records
            ELSE /\ IF CoopRecordsOf(a) = {}
                    THEN coop_records' = Append(coop_records,
                             [application_id |-> a, student_id |-> s,
                              position_id |-> applications[a].position_id,
                              eligibility_id |-> Some(el), faculty_id |-> None,
                              student_interested |-> TRUE,
                              summary_text |-> NoneStr, summary_status |-> "Draft",
                              employer_approval |-> "Pending",
                              faculty_grade |-> NoneStr])
                    ELSE \E c \in CoopRecordsOf(a) :
                             coop_records' = [coop_records EXCEPT ![c].student_interested = TRUE]
                 /\ last' = Response("interest", s, a,
                        "Your interest in co-op credit has been recorded.")
    /\ UNCHANGED <<students, employers, faculty, job_positions, applications,
                   selections, coop_eligibility, outbox, evalc, console_ok, inflight>>

\* getattr(application.eligibility, "id", None)
EligibilityIdChoices(a) ==
    IF EligibilitiesOf(a) = {} THEN {None} ELSE { Some(el) : el \in EligibilitiesOf(a) }

\* summary form that inserts a CoopRecord on every request
submit_summary_always_creates(s, a, method, action, summary) ==
    /\ Serve
    /\ s \in Ids(students)
    /\ a \in Ids(applications)
    /\ IF applications[a].student_id # s
       THEN /\ last' = Response("summary", s, a, "")
            /\ UNCHANGED coop_records
       ELSE \E eid \in EligibilityIdChoices(a) :
            LET opened == Append(coop_records,
                               [application_id |-> a, student_id |-> s,
                                position_id |-> applications[a].position_id,
                                eligibility_id |-> eid, faculty_id |-> None,
                                student_interested |-> TRUE,
                                summary_text |-> NoneStr, summary_status |-> "Draft",
                                employer_approval |-> "Pending",
                                faculty_grade |-> NoneStr])
                c == Len(opened)
            IN  IF method = "POST"
                THEN /\ coop_records' =
                            [opened EXCEPT ![c].summary_text = summary,
                                           ![c].summary_status =
                                               IF action = "submit" THEN "Submitted"
                                                                    ELSE "Draft"]
                     /\ last' = Response("summary", s, a, "Summary saved.")
                ELSE /\ coop_records' = opened
                     /\ last' = Response("summary", s, a, "")
    /\ UNCHANGED <<students, employers, faculty, job_positions, applications,
                   selections, coop_eligibility, outbox, evalc, console_ok, inflight>>

submit_summary(s, a, method, action, summary) ==
    /\ Serve
    /\ s \in Ids(students)
    /\ a \in Ids(applications)
    /\ IF applications[a].student_id # s
       THEN /\ last' = Response("summary", s, a, "")
            /\ UNCHANGED coop_records
       ELSE \E eid \in EligibilityIdChoices(a) :
            LET created == Append(coop_records,
                               [application_id |-> a, student_id |-> s,
                                position_id |-> applications[a].position_id,
                                eligibility_id |-> eid, faculty_id |-> None,
                                student_interested |-> TRUE,
                                summary_text |-> NoneStr, summary_status |-> "Draft",
                                employer_approval |-> "Pending",
                                faculty_grade |-> NoneStr])
                opened == IF CoopRecordsOf(a) = {} THEN created ELSE coop_records
                mine == { i \in Ids(opened) : opened[i].application_id = a }
            IN  \E c \in mine :
                IF method = "POST"
                THEN /\ coop_records' =
                            [opened EXCEPT ![c].summary_text = summary,
                                           ![c].summary_status =
                                               IF action = "submit" THEN "Submitted"
                                                                    ELSE "Draft"]
                     /\ last' = Response("summary", s, a, "Summary saved.")
                ELSE /\ coop_records' = opened
                     /\ last' = Response("summary", s, a, "")
    /\ UNCHANGED <<students, employers, faculty, job_positions, applications,
                   selections, coop_eligibility, outbox, evalc, console_ok, inflight>>

----------------------------------------------------------------------------
(* Employer routes *)

\* post that stores weeks + hours_per_week as the total
employer_post_sum(e, form) ==
    /\ Serve
    /\ e \in Ids(employers)
    /\ LET weeks == FormInt(form.weeks)
           hours_per_week == FormInt(form.hours_per_week)
           total_hours == weeks + hours_per_week
       IN  job_positions' = Append(job_positions,
               [employer_id |-> e, weeks |-> Some(weeks),
                hours_per_week |-> Some(hours_per_week),
                total_hours |-> Some(total_hours), status |-> "Open"])
    /\ last' = Response("post", e, Len(job_positions) + 1, "Job position created.")
    /\ UNCHANGED <<students, employers, faculty, applications, selections,
                   coop_eligibility, coop_records, outbox, evalc, console_ok, inflight>>

employer_post(e, form) ==
    /\ Serve
    /\ e \in Ids(employers)
    /\ LET weeks == FormInt(form.weeks)
           hours_per_week == FormInt(form.hours_per_week)
           total_hours == weeks * hours_per_week
       IN  job_positions' = Append(job_positions,
               [employer_id |-> e, weeks |-> Some(weeks),
                hours_per_week |-> Some(hours_per_week),
                total_hours |-> Some(total_hours), status |-> "Open"])
    /\ last' = Response("post", e, Len(job_positions) + 1, "Job position created.")
    /\ UNCHANGED <<students, employers, faculty, applications, selections,
                   coop_eligibility, coop_records, outbox, evalc, console_ok, inflight>>

\* select that leaves the position status alone
employer_select_keeps_position(e, a) ==
    /\ Serve
    /\ e \in Ids(employers)
    /\ a \in Ids(applications)
    /\ LET application == applications[a]
           student == students[application.student_id]
           position == job_positions[application.position_id]
           r == check_eligibility(student, position)
       IN  /\ applications' = [applications EXCEPT ![a].status = "Selected"]
           /\ selections' = Append(selections, [application_id |-> a])
           /\ coop_eligibility' = Append(coop_eligibility,
                  [application_id |-> a, is_eligible |-> r.is_eligible,
                   gpa_ok |-> r.gpa_ok, weeks_ok |-> r.weeks_ok,
                   hours_ok |-> r.hours_ok, semesters_ok |-> r.semesters_ok])
           /\ outbox' = IF r.is_eligible /\ console_ok
                        THEN Append(outbox, student.email)
                        ELSE outbox
           /\ last' = Response("select", e, a,
                  IF r.is_eligible /\ ~console_ok
                  THEN InternalServerError
                  ELSE IF r.is_eligible
                  THEN "Candidate selected. Eligibility result: Eligible."
                  ELSE "Candidate selected. Eligibility result: Not eligible.")
    /\ UNCHANGED <<students, employers, faculty, job_positions, coop_records, evalc, console_ok, inflight>>

employer_select(e, a) ==
    /\ Serve
    /\ e \in Ids(employers)
    /\ a \in Ids(applications)
    /\ LET application == applications[a]
           pid == application.position_id
           student == students[application.student_id]
           position == [job_positions[pid] EXCEPT !.status = "Pending"]
           r == check_eligibility(student, position)
       IN  /\ applications' = [applications EXCEPT ![a].status = "Selected"]
           /\ job_positions' = [job_positions EXCEPT ![pid] = position]
           /\ selections' = Append(selections, [application_id |-> a])
           /\ coop_eligibility' = Append(coop_eligibility,
                  [application_id |-> a, is_eligible |-> r.is_eligible,
                   gpa_ok |-> r.gpa_ok, weeks_ok |-> r.weeks_ok,
                   hours_ok |-> r.hours_ok, semesters_ok |-> r.semesters_ok])
           /\ outbox' = IF r.is_eligible /\ console_ok
                        THEN Append(outbox, student.email)
                        ELSE outbox
           /\ last' = Response("select", e, a,
                  IF r.is_eligible /\ ~console_ok
                  THEN InternalServerError
                  ELSE IF r.is_eligible
                  THEN "Candidate selected. Eligibility result: Eligible."
                  ELSE "Candidate selected. Eligibility result: Not eligible.")
    /\ UNCHANGED <<students, employers, faculty, coop_records, evalc, console_ok, inflight>>

\* reject that also reopens the position
employer_reject_reopens(e, a) ==
    /\ Serve
    /\ e \in Ids(employers)
    /\ a \in Ids(applications)
    /\ applications' = [applications EXCEPT ![a].status = "Rejected"]
    /\ job_positions' = [job_positions EXCEPT ![applications[a].position_id].status = "Open"]
    /\ last' = Response("reject", e, a, "Application rejected.")
    /\ UNCHANGED <<students, employers, faculty, selections,
                   coop_eligibility, coop_records, outbox, evalc, console_ok, inflight>>

employer_reject(e, a) ==
    /\ Serve
    /\ e \in Ids(employers)
    /\ a \in Ids(applications)
    /\ applications' = [applications EXCEPT ![a].status = "Rejected"]
    /\ last' = Response("reject", e, a, "Application rejected.")
    /\ UNCHANGED <<students, employers, faculty, job_positions, selections,
                   coop_eligibility, coop_records, outbox, evalc, console_ok, inflight>>

employer_review_summary(e, c, method, decision) ==
    /\ Serve
    /\ e \in Ids(employers)
    /\ c \in Ids(coop_records)
    /\ LET application == applications[coop_records[c].application_id]
           position == job_positions[application.position_id]
       IN  IF position.employer_id # e
           THEN /\ last' = Response("review", e, c, "")
                /\ UNCHANGED coop_records
           ELSE IF method = "POST"
           THEN /\ coop_records' = [coop_records EXCEPT ![c].employer_approval = decision]
                /\ last' = Response("review", e, c, "Co-op summary review submitted.")
           ELSE /\ last' = Response("review", e, c, "")
                /\ UNCHANGED coop_records
    /\ UNCHANGED <<students, employers, faculty, job_positions, applications,
                   selections, coop_eligibility, outbox, evalc, console_ok, inflight>>

----------------------------------------------------------------------------
(* Faculty routes *)

faculty_grade(f, c, method, grade) ==
    /\ Serve
    /\ f \in Ids(faculty)
    /\ c \in Ids(coop_records)
    /\ IF method = "POST"
       THEN /\ coop_records' = [coop_records EXCEPT ![c].faculty_grade = grade,
                                                    ![c].faculty_id = Some(f)]
            /\ last' = Response("grade", f, c, "Grade saved.")
       ELSE /\ last' = Response("grade", f, c, "")
            /\ UNCHANGED coop_records
    /\ UNCHANGED <<students, employers, faculty, job_positions, applications,
                   selections, coop_eligibility, outbox, evalc, console_ok, inflight>>

----------------------------------------------------------------------------
(* The portal: every request handler, one request at a time *)

Next ==
    \/ \E form \in StudentForms : register_student(form)
    \/ \E form \in EmployerForms : register_employer(form)
    \/ \E form \in FacultyForms : register_faculty(form)
    \/ \E s \in Ids(students), p \in Ids(job_positions) : apply_to_position(s, p)
    \/ \E s \in Ids(students), a \in Ids(applications) : withdraw_application(s, a)
    \/ \E s \in Ids(students), a \in Ids(applications) : indicate_interest(s, a)
    \/ \E s \in Ids(students), a \in Ids(applications), method \in Methods,
          action \in SummaryActions, summary \in SummaryTexts :
             submit_summary(s, a, method, action, summary)
    \/ \E e \in Ids(employers), form \in PositionForms : employer_post(e, form)
    \/ \E e \in Ids(employers), a \in Ids(applications) : employer_select(e, a)
    \/ \E e \in Ids(employers), a \in Ids(applications) : employer_reject(e, a)
    \/ \E e \in Ids(employers), c \in Ids(coop_records), method \in Methods,
          decision \in ApprovalForms : employer_review_summary(e, c, method, decision)
    \/ \E f \in Ids(faculty), c \in Ids(coop_records), method \in Methods,
          grade \in GradeForms : faculty_grade(f, c, method, grade)

Spec == Init /\ [][Next]_vars

----------------------------------------------------------------------------
(* The evaluator on its own: one call on a student and a position drawn    *)
(* from the boundary values of every column it reads                       *)

GpaInputs == {None, Some(0), Some(19), Some(20), Some(30)}

WeeksInputs == {None, Some(0), Some(6), Some(7), Some(10)}

HoursPerWeekInputs == {None, Some(0), Some(15), Some(20)}

TotalHoursInputs == {None, Some(0), Some(7), Some(139), Some(140), Some(150)}

StartYearInputs == {None, Some(0), Some(2022)}

InitEval ==
    /\ EmptyDb
    /\ nreq = 0
    /\ console_ok = TRUE
    /\ inflight = <<>>
    /\ \E g \in GpaInputs, y \in StartYearInputs, t \in BOOLEAN,
          w \in WeeksInputs, h \in HoursPerWeekInputs, th \in TotalHoursInputs :
          evalc = [student |-> [gpa |-> g, start_year |-> y, is_transfer |-> t],
                   position |-> [weeks |-> w, hours_per_week |-> h, total_hours |-> th],
                   called |-> FALSE, result |-> NoVerdict]

Evaluate ==
    /\ ~evalc.called
    /\ evalc' = [evalc EXCEPT !.called = TRUE,
                              !.result = check_eligibility(evalc.student, evalc.position)]
    /\ UNCHANGED <<students, employers, faculty, job_positions, applications,
                   selections, coop_eligibility, coop_records, outbox, last, nreq, console_ok, inflight>>

NextEval == Evaluate

SpecEval == InitEval /\ [][NextEval]_vars

----------------------------------------------------------------------------
(* Properties of the evaluator (under SpecEval) *)

\* C1: for every combination of inputs the overall verdict returned by
\* check_eligibility equals the AND of the four sub-checks of the same call.
C1_VerdictIsAndOfSubChecks ==
    evalc.called =>
        evalc.result.is_eligible =
            (evalc.result.gpa_ok /\ evalc.result.weeks_ok
                /\ evalc.result.hours_ok /\ evalc.result.semesters_ok)

\* A call where three sub-checks pass and only the start year is missing
C1_Witness ==
    /\ evalc.called
    /\ evalc.student.gpa = Some(20)
    /\ evalc.position.weeks = Some(7)
    /\ evalc.position.total_hours = Some(140)
    /\ evalc.student.start_year = None
    /\ ~evalc.result.is_eligible
    /\ evalc.result.gpa_ok /\ evalc.result.weeks_ok /\ evalc.result.hours_ok

\* The effective total hours as the specification words them
EffectiveHours(position) ==
    IF position.total_hours.some /\ position.total_hours.val # 0
    THEN position.total_hours.val
    ELSE IF ~position.weeks.some \/ position.weeks.val = 0
            \/ ~position.hours_per_week.some \/ position.hours_per_week.val = 0
         THEN 0
         ELSE position.weeks.val * position.hours_per_week.val

\* C2: hours_ok is true exactly when the effective total hours (the stored
\* total_hours when present and non-zero, otherwise weeks * hours_per_week)
\* are at least 140; weeks=7, hours_per_week=20, total_hours unset gives true;
\* a stored non-zero total below 140 gives false whatever the product is.
C2_HoursOk ==
    evalc.called =>
        /\ evalc.result.hours_ok = (EffectiveHours(evalc.position) >= 140)
        /\ (/\ evalc.position.weeks = Some(7)
            /\ evalc.position.hours_per_week = Some(20)
            /\ evalc.position.total_hours = None) => evalc.result.hours_ok
        /\ (/\ evalc.position.total_hours.some
            /\ evalc.position.total_hours.val # 0
            /\ evalc.position.total_hours.val < 140) => ~evalc.result.hours_ok

\* The boundary call: 7 weeks of 20 hours with no stored total
C2_Witness ==
    /\ evalc.called
    /\ evalc.position.weeks = Some(7)
    /\ evalc.position.hours_per_week = Some(20)
    /\ evalc.position.total_hours = None
    /\ evalc.result.hours_ok

\* C3: gpa_ok is true exactly when the gpa is present and at least 2.0; when
\* the gpa is absent or below 2.0 the overall verdict is false whatever the
\* other inputs are.
C3_GpaOk ==
    evalc.called =>
        /\ evalc.result.gpa_ok = (evalc.student.gpa.some /\ evalc.student.gpa.val >= 20)
        /\ (~evalc.student.gpa.some \/ evalc.student.gpa.val < 20)
               => ~evalc.result.is_eligible

\* A gpa of 1.9 with every other factor passing
C3_Witness ==
    /\ evalc.called
    /\ evalc.student.gpa = Some(19)
    /\ evalc.result.weeks_ok /\ evalc.result.hours_ok /\ evalc.result.semesters_ok
    /\ ~evalc.result.gpa_ok
    /\ ~evalc.result.is_eligible

----------------------------------------------------------------------------
(* Properties of the lifecycle (under Spec) *)

\* The step serves a request of handler op on target arg
Handled(op, arg) == nreq' = nreq + 1 /\ last'.op = op /\ last'.arg = arg

Terminal == {"Selected", "Rejected", "Withdrawn"}

NonWithdrawn(s, p) ==
    { i \in Ids(applications) : /\ applications[i].student_id = s
                                /\ applications[i].position_id = p
                                /\ applications[i].status # "Withdrawn" }

\* C4: with requests served one at a time, no (student, position) pair ever
\* has two applications whose status is not Withdrawn, and an apply by a
\* student who already has a non-withdrawn application to that position adds
\* no Application row and changes no stored state.
C4_OneLiveApplicationPerPair ==
    /\ [](\A s \in Ids(students), p \in Ids(job_positions) :
             Cardinality(NonWithdrawn(s, p)) <= 1)
    /\ [][\A s \in Ids(students), p \in Ids(job_positions) :
             (Handled("apply", p) /\ last'.actor = s /\ NonWithdrawn(s, p) # {})
                 => UNCHANGED <<db, outbox>>]_vars

\* A second apply to the same position has just been turned away
C4_Witness ==
    /\ last.op = "apply"
    /\ last.flash = "You already applied to this position."
    /\ Cardinality(NonWithdrawn(last.actor, last.arg)) = 1
    /\ Len(applications) = 1

\* C5: every CoopRecord with student_interested = true belongs to an
\* application that has a CoopEligibility record with is_eligible = true.
C5_InterestedImpliesEligible ==
    \A c \in Ids(coop_records) :
        coop_records[c].student_interested =>
            \E el \in EligibilitiesOf(coop_records[c].application_id) :
                coop_eligibility[el].is_eligible

\* C6: a select of an application whose status is Selected, Rejected or
\* Withdrawn creates no Selection and no CoopEligibility record and leaves
\* the application status and the position status unchanged.
C6_SelectOnlyFromPending ==
    [][\A a \in Ids(applications) :
          (Handled("select", a) /\ applications[a].status \in Terminal)
              => /\ UNCHANGED <<selections, coop_eligibility>>
                 /\ applications'[a].status = applications[a].status
                 /\ job_positions'[applications[a].position_id].status
                        = job_positions[applications[a].position_id].status]_vars

\* C7: once an application's status is Selected, Rejected or Withdrawn, no
\* later operation changes that application's status.
C7_TerminalStatuses ==
    [][\A a \in Ids(applications) :
          applications[a].status \in Terminal
              => applications'[a].status = applications[a].status]_vars

\* C8: a select of a Pending application commits in one step the status
\* Selected, the position status Pending, a Selection record and a
\* CoopEligibility record whose five flags are the result of
\* check_eligibility on the application's student and position; Selection
\* and CoopEligibility rows only ever appear together in such a step, and a
\* Selected application always has both on a Pending position.
C8_SelectCommitsAsOneUnit ==
    /\ [][\A a \in Ids(applications) :
             (Handled("select", a) /\ applications[a].status = "Pending")
                 => LET pid == applications[a].position_id
                        r == check_eligibility(students[applications[a].student_id],
                                               job_positions[pid])
                    IN  /\ applications'[a].status = "Selected"
                        /\ job_positions'[pid].status = "Pending"
                        /\ selections' = Append(selections, [application_id |-> a])
                        /\ Len(coop_eligibility') = Len(coop_eligibility) + 1
                        /\ \A i \in DOMAIN coop_eligibility' :
                               coop_eligibility'[i].application_id = a
                                  => /\ i = Len(coop_eligibility')
                                     /\ coop_eligibility'[i].is_eligible = r.is_eligible
                                     /\ coop_eligibility'[i].gpa_ok = r.gpa_ok
                                     /\ coop_eligibility'[i].weeks_ok = r.weeks_ok
                                     /\ coop_eligibility'[i].hours_ok = r.hours_ok
                                     /\ coop_eligibility'[i].semesters_ok = r.semesters_ok
                        /\ coop_eligibility'[Len(coop_eligibility')].application_id = a]_vars
    /\ [][(selections' # selections \/ coop_eligibility' # coop_eligibility)
             => /\ last'.op = "select"
                /\ Len(selections') = Len(selections) + 1
                /\ Len(coop_eligibility') = Len(coop_eligibility) + 1]_vars
    /\ [](\A a \in Ids(applications) :
             applications[a].status = "Selected"
                 => /\ SelectionsOf(a) # {}
                    /\ EligibilitiesOf(a) # {}
                    /\ job_positions[applications[a].position_id].status = "Pending")

\* A Pending application has just been selected and found not eligible
C8_Witness ==
    /\ last.op = "select"
    /\ applications[last.arg].status = "Selected"
    /\ Cardinality(SelectionsOf(last.arg)) = 1
    /\ Cardinality(EligibilitiesOf(last.arg)) = 1
    /\ \E el \in EligibilitiesOf(last.arg) :
           /\ ~coop_eligibility[el].is_eligible
           /\ coop_eligibility[el].weeks_ok
    /\ job_positions[applications[last.arg].position_id].status = "Pending"

\* The end-to-end scenario: a position of 10 weeks at 15 hours per week and
\* a student with gpa 3.0 who started in 2022
C9_Scenario(a) ==
    LET position == job_positions[applications[a].position_id]
        student == students[applications[a].student_id]
    IN  /\ position.weeks = Some(10)
        /\ position.hours_per_week = Some(15)
        /\ student.gpa = Some(30)
        /\ student.start_year = Some(2022)

\* C9: a position posted with weeks=10 and hours_per_week=15 stores
\* total_hours=150, and when the employer selects the Pending application of
\* a student with gpa=3.0 and start_year=2022 to it, the application is
\* Selected, the position is Pending, the application has one CoopEligibility
\* with is_eligible and all four sub-checks true, and one notification is
\* emitted to the student.
C9_EndToEnd ==
    /\ [](\A p \in Ids(job_positions) :
             (job_positions[p].weeks = Some(10)
                 /\ job_positions[p].hours_per_week = Some(15))
                 => job_positions[p].total_hours = Some(150))
    /\ [][\A a \in Ids(applications) :
             (Handled("select", a) /\ applications[a].status = "Pending" /\ C9_Scenario(a))
                 => /\ applications'[a].status = "Selected"
                    /\ job_positions'[applications[a].position_id].status = "Pending"
                    /\ Cardinality({ i \in DOMAIN coop_eligibility' :
                                        coop_eligibility'[i].application_id = a }) = 1
                    /\ \A i \in DOMAIN coop_eligibility' :
                           coop_eligibility'[i].application_id = a
                              => /\ coop_eligibility'[i].is_eligible
                                 /\ coop_eligibility'[i].gpa_ok
                                 /\ coop_eligibility'[i].weeks_ok
                                 /\ coop_eligibility'[i].hours_ok
                                 /\ coop_eligibility'[i].semesters_ok
                    /\ outbox' = Append(outbox,
                                        students[applications[a].student_id].email)]_vars

\* The scenario has run: posted, applied, selected, notified
C9_Witness ==
    /\ last.op = "select"
    /\ C9_Scenario(last.arg)
    /\ applications[last.arg].status = "Selected"
    /\ job_positions[applications[last.arg].position_id].total_hours = Some(150)
    /\ \E el \in EligibilitiesOf(last.arg) : coop_eligibility[el].is_eligible
    /\ outbox = <<students[applications[last.arg].student_id].email>>

\* C10: a select or reject issued by an employer who does not own the
\* application's position changes no Application, JobPosition, Selection or
\* CoopEligibility state.
C10_SelectRejectNeedOwnership ==
    [][\A a \in Ids(applications) :
          (/\ (Handled("select", a) \/ Handled("reject", a))
           /\ job_positions[applications[a].position_id].employer_id # last'.actor)
              => UNCHANGED <<applications, job_positions, selections,
                             coop_eligibility>>]_vars

----------------------------------------------------------------------------
(* The portal started with a console that may be closed: the print calls   *)
(* of send_email then raise inside employer_select, after the commit       *)

InitNotify ==
    /\ EmptyDb
    /\ evalc = IdleEval
    /\ nreq = 0
    /\ console_ok \in BOOLEAN
    /\ inflight = <<>>

SpecNotify == InitNotify /\ [][Next]_vars

\* The five flags of a CoopEligibility row
Flags(row) ==
    [is_eligible |-> row.is_eligible, gpa_ok |-> row.gpa_ok,
     weeks_ok |-> row.weeks_ok, hours_ok |-> row.hours_ok,
     semesters_ok |-> row.semesters_ok]

\* The status change, Selection and CoopEligibility of a select of a are in
\* the state after the step
SelectCommitted(a) ==
    /\ applications'[a].status = "Selected"
    /\ job_positions'[applications[a].position_id].status = "Pending"
    /\ selections' = Append(selections, [application_id |-> a])
    /\ Len(coop_eligibility') = Len(coop_eligibility) + 1
    /\ coop_eligibility'[Len(coop_eligibility')].application_id = a

\* C11: on select a notification to the student is emitted only if the
\* computed verdict is eligible, and always if it is eligible and the sink
\* works; it is emitted together with the committed status change, Selection
\* and CoopEligibility; when the notification fails, the select request does
\* not fail and those effects stay committed.
C11_NotificationBestEffort ==
    [][\A a \in Ids(applications) :
          Handled("select", a)
              => LET student == students[applications[a].student_id]
                     r == check_eligibility(student,
                                            job_positions[applications[a].position_id])
                 IN  /\ outbox' # outbox => r.is_eligible
                     /\ (r.is_eligible /\ console_ok)
                            => outbox' = Append(outbox, student.email)
                     /\ outbox' # outbox => SelectCommitted(a)
                     /\ (r.is_eligible /\ ~console_ok)
                            => /\ SelectCommitted(a)
                               /\ last'.flash # InternalServerError]_vars

\* C12: a select leaves the student and the duration of the position as they
\* were, and every CoopEligibility row of an application, whichever select
\* wrote it, carries the same verdict and the same four sub-check values.
C12_ReselectSameVerdict ==
    /\ [](\A a \in Ids(applications) :
             \A i \in EligibilitiesOf(a), j \in EligibilitiesOf(a) :
                 Flags(coop_eligibility[i]) = Flags(coop_eligibility[j]))
    /\ [][\A a \in Ids(applications) :
             Handled("select", a)
                 => LET pid == applications[a].position_id
                    IN  /\ students' = students
                        /\ job_positions'[pid].weeks = job_positions[pid].weeks
                        /\ job_positions'[pid].hours_per_week
                               = job_positions[pid].hours_per_week
                        /\ job_positions'[pid].total_hours
                               = job_positions[pid].total_hours]_vars

\* The same application has been selected twice and found eligible twice
C12_Witness ==
    /\ last.op = "select"
    /\ Cardinality(EligibilitiesOf(last.arg)) = 2
    /\ \A el \in EligibilitiesOf(last.arg) : coop_eligibility[el].is_eligible

\* C13: each application has at most one CoopEligibility record.
C13_OneEligibilityPerApplication ==
    \A a \in Ids(applications) : Cardinality(EligibilitiesOf(a)) <= 1

\* C14: each application whose status is Selected has exactly one Selection
\* record, and every Selection record belongs to an application whose status
\* is Selected.
C14_SelectionsMatchSelected ==
    /\ \A a \in Ids(applications) :
           applications[a].status = "Selected" => Cardinality(SelectionsOf(a)) = 1
    /\ \A i \in Ids(selections) :
           applications[selections[i].application_id].status = "Selected"

\* C15: once a CoopRecord's summary_status is Submitted, no later operation
\* sets it back to Draft.
C15_SubmittedStaysSubmitted ==
    [][\A c \in Ids(coop_records) :
          coop_records[c].summary_status = "Submitted"
              => coop_records'[c].summary_status = "Submitted"]_vars

\* C16: employer_approval is always one of Pending, Approved, Rejected, and
\* once it is Approved or Rejected no later operation changes it.
C16_ApprovalTerminal ==
    /\ [](\A c \in Ids(coop_records) :
             coop_records[c].employer_approval \in {"Pending", "Approved", "Rejected"})
    /\ [][\A c \in Ids(coop_records) :
             coop_records[c].employer_approval \in {"Approved", "Rejected"}
                 => coop_records'[c].employer_approval
                       = coop_records[c].employer_approval]_vars

\* C17: indicate_interest on an application with no CoopEligibility record,
\* or with none that is eligible, creates no CoopRecord and changes no field
\* of any stored entity.
C17_InterestNeedsEligibility ==
    [][\A a \in Ids(applications) :
          (/\ Handled("interest", a)
           /\ ~\E el \in EligibilitiesOf(a) : coop_eligibility[el].is_eligible)
              => UNCHANGED <<db, outbox>>]_vars

\* The owner of a selected but ineligible application asked for credit and
\* was turned away
C17_Witness ==
    /\ last.op = "interest"
    /\ last.flash = "You are not marked as eligible for co-op for this position."
    /\ applications[last.arg].student_id = last.actor
    /\ EligibilitiesOf(last.arg) # {}
    /\ coop_records = <<>>

\* CoopRecord rows of an application, read from a given table
RecordsIn(table, a) == { i \in DOMAIN table : table[i].application_id = a }

\* C18: with requests served one at a time each application has at most one
\* CoopRecord; indicate_interest and submit_summary insert a CoopRecord only
\* for their application and only when it has none, and otherwise keep the
\* number of rows and update the existing one.
C18_OneCoopRecordPerApplication ==
    /\ [](\A a \in Ids(applications) : Cardinality(RecordsIn(coop_records, a)) <= 1)
    /\ [][\A a \in Ids(applications) :
             (Handled("interest", a) \/ Handled("summary", a))
                 => IF RecordsIn(coop_records, a) = {}
                    THEN \/ coop_records' = coop_records
                         \/ /\ Len(coop_records') = Len(coop_records) + 1
                            /\ coop_records'[Len(coop_records')].application_id = a
                            /\ \A i \in Ids(coop_records) :
                                   coop_records'[i] = coop_records[i]
                    ELSE /\ Len(coop_records') = Len(coop_records)
                         /\ \A i \in Ids(coop_records) :
                                coop_records'[i].application_id # a
                                    => coop_records'[i] = coop_records[i]]_vars

\* A record created by the summary form and submitted, then updated by
\* indicate_interest
C18_Witness ==
    /\ last.op = "interest"
    /\ last.flash = "Your interest in co-op credit has been recorded."
    /\ Len(coop_records) = 1
    /\ coop_records[1].application_id = last.arg
    /\ coop_records[1].summary_status = "Submitted"

\* C19: reject sets the target application's status to Rejected and changes
\* nothing else: no CoopEligibility, no Selection, no position status, no
\* other application.
C19_RejectFrame ==
    [][\A a \in Ids(applications) :
          Handled("reject", a)
              => /\ applications' = [applications EXCEPT ![a].status = "Rejected"]
                 /\ UNCHANGED <<students, employers, faculty, job_positions,
                                selections, coop_eligibility, coop_records,
                                outbox>>]_vars

\* A selected application has been rejected: its position is still Pending
\* and its Selection and CoopEligibility are as the select left them
C19_Witness ==
    /\ last.op = "reject"
    /\ applications[last.arg].status = "Rejected"
    /\ job_positions[applications[last.arg].position_id].status = "Pending"
    /\ Cardinality(SelectionsOf(last.arg)) = 1
    /\ Cardinality(EligibilitiesOf(last.arg)) = 1

\* C20: a withdraw request by a student who is not the application's student
\* changes nothing, and a withdraw by the owner sets the status to Withdrawn
\* and changes nothing else.
C20_WithdrawByOwnerOnly ==
    [][\A a \in Ids(applications) :
          Handled("withdraw", a)
              => IF applications[a].student_id # last'.actor
                 THEN UNCHANGED <<db, outbox>>
                 ELSE /\ applications' = [applications EXCEPT ![a].status = "Withdrawn"]
                      /\ UNCHANGED <<students, employers, faculty, job_positions,
                                     selections, coop_eligibility, coop_records,
                                     outbox>>]_vars

\* Another student tried to withdraw a Pending application
C20_Witness ==
    /\ last.op = "withdraw"
    /\ applications[last.arg].student_id # last.actor
    /\ applications[last.arg].status = "Pending"

\* C21: a grade action by a faculty member on a CoopRecord whose student's
\* department differs from the faculty member's department changes neither
\* faculty_grade nor faculty_id of that record.
C21_GradeScopedByDepartment ==
    [][\A c \in Ids(coop_records) :
          (/\ Handled("grade", c)
           /\ students[coop_records[c].student_id].department
                  # faculty[last'.actor].department)
              => /\ coop_records'[c].faculty_grade = coop_records[c].faculty_grade
                 /\ coop_records'[c].faculty_id = coop_records[c].faculty_id]_vars

\* C23: with requests served one at a time there is at most one Faculty row
\* per department, and a registration adds a Faculty row only for a
\* department that has no coordinator yet.
C23_OneCoordinatorPerDepartment ==
    /\ [](\A i \in Ids(faculty), j \in Ids(faculty) :
             faculty[i].department = faculty[j].department => i = j)
    /\ [][faculty' # faculty
             => /\ last'.op = "register_faculty"
                /\ Len(faculty') = Len(faculty) + 1
                /\ \A i \in Ids(faculty) :
                       /\ faculty'[i] = faculty[i]
                       /\ faculty[i].department
                              # faculty'[Len(faculty')].department]_vars

\* A second registration for a department that has its coordinator was
\* turned away
C23_Witness ==
    /\ last.op = "register_faculty"
    /\ last.flash = "A co-op coordinator already exists for this department."
    /\ Len(faculty) = 1

\* Applications of a (student, position) pair, whatever their status
ApplicationsOf(s, p) ==
    { i \in Ids(applications) : /\ applications[i].student_id = s
                                /\ applications[i].position_id = p }

\* C24: with requests served one at a time there is at most one Application
\* row per (student, position) pair whatever its status, and an apply by a
\* student whose application to that position is Withdrawn adds no row.
C24_WithdrawnBlocksReapply ==
    /\ [](\A s \in Ids(students), p \in Ids(job_positions) :
             Cardinality(ApplicationsOf(s, p)) <= 1)
    /\ [][\A s \in Ids(students), p \in Ids(job_positions) :
             (/\ Handled("apply", p)
              /\ last'.actor = s
              /\ \E i \in ApplicationsOf(s, p) : applications[i].status = "Withdrawn")
                 => /\ applications' = applications
                    /\ last'.flash = "You already applied to this position."]_vars

\* A student who withdrew applied again and was turned away
C24_Witness ==
    /\ last.op = "apply"
    /\ last.flash = "You already applied to this position."
    /\ \E i \in ApplicationsOf(last.actor, last.arg) :
           applications[i].status = "Withdrawn"
    /\ Len(applications) = 1

\* C25: a position's status is Open or Pending; once it is Pending no
\* operation changes it; and an apply to a Pending position by a student
\* with no application to it still inserts a Pending application.
C25_PositionStatusOneWay ==
    /\ [](\A p \in Ids(job_positions) :
             job_positions[p].status \in {"Open", "Pending"})
    /\ [][\A p \in Ids(job_positions) :
             job_positions[p].status = "Pending"
                 => job_positions'[p].status = "Pending"]_vars
    /\ [][\A s \in Ids(students), p \in Ids(job_positions) :
             (/\ Handled("apply", p)
              /\ last'.actor = s
              /\ job_positions[p].status = "Pending"
              /\ ApplicationsOf(s, p) = {})
                 => applications' = Append(applications,
                        [student_id |-> s, position_id |-> p,
                         status |-> "Pending"])]_vars

\* After the select of one application, another student applied to the
\* Pending position
C25_Witness ==
    /\ last.op = "apply"
    /\ last.flash = "Application submitted."
    /\ job_positions[last.arg].status = "Pending"
    /\ Len(applications) = 2
    /\ applications[1].status = "Selected"
    /\ applications[2].status = "Pending"

\* The Student row register_student builds from a form
RegisteredRow(form) ==
    [email |-> form.email, department |-> form.department,
     gpa |-> Some(IF form.gpa.some THEN form.gpa.val ELSE 0),
     start_year |-> Some(IF form.start_year.some THEN form.start_year.val ELSE 0),
     is_transfer |-> form.is_transfer.some]

\* C26: every registered student has a non-null gpa and a non-null
\* start_year, a missing form value being stored as 0, and every
\* CoopEligibility record has semesters_ok = true, for transfer and
\* non-transfer students alike.
C26_RegisteredStudentsPassSemesters ==
    /\ [](\A s \in Ids(students) :
             /\ students[s].gpa.some
             /\ students[s].start_year.some
             /\ \E form \in StudentForms : students[s] = RegisteredRow(form))
    /\ [](\A el \in Ids(coop_eligibility) : coop_eligibility[el].semesters_ok)

\* A transfer student registered without a start year has been selected
C26_Witness ==
    /\ last.op = "select"
    /\ students[applications[last.arg].student_id].is_transfer
    /\ students[applications[last.arg].student_id].start_year = Some(0)
    /\ \E el \in EligibilitiesOf(last.arg) : coop_eligibility[el].semesters_ok

----------------------------------------------------------------------------
(* Concurrent apply requests: each request runs in its own session, so the *)
(* duplicate lookup and the insert of apply_to_position are two steps, and *)
(* inflight holds the requests with the result of their lookup             *)

apply_query(s, p) ==
    /\ Serve
    /\ s \in Ids(students)
    /\ p \in Ids(job_positions)
    /\ inflight' = Append(inflight,
           [student_id |-> s, position_id |-> p,
            existing |-> \E i \in Ids(applications) :
                            /\ applications[i].student_id = s
                            /\ applications[i].position_id = p,
            done |-> FALSE])
    /\ UNCHANGED <<students, employers, faculty, job_positions, applications,
                   selections, coop_eligibility, coop_records, outbox, last,
                   evalc, console_ok>>

\* the insert looks the application up a second time
apply_commit_rechecks(r) ==
    /\ r \in DOMAIN inflight
    /\ ~inflight[r].done
    /\ inflight' = [inflight EXCEPT ![r].done = TRUE]
    /\ LET s == inflight[r].student_id
           p == inflight[r].position_id
       IN  IF \/ inflight[r].existing
              \/ \E i \in Ids(applications) :
                    /\ applications[i].student_id = s
                    /\ applications[i].position_id = p
           THEN /\ last' = Response("apply", s, p, "You already applied to this position.")
                /\ UNCHANGED applications
           ELSE /\ applications' = Append(applications,
                       [student_id |-> s, position_id |-> p, status |-> "Pending"])
                /\ last' = Response("apply", s, p, "Application submitted.")
    /\ UNCHANGED <<students, employers, faculty, job_positions, selections,
                   coop_eligibility, coop_records, outbox, evalc, console_ok, nreq>>

apply_commit(r) ==
    /\ r \in DOMAIN inflight
    /\ ~inflight[r].done
    /\ inflight' = [inflight EXCEPT ![r].done = TRUE]
    /\ LET s == inflight[r].student_id
           p == inflight[r].position_id
       IN  IF inflight[r].existing
           THEN /\ last' = Response("apply", s, p, "You already applied to this position.")
                /\ UNCHANGED applications
           ELSE /\ applications' = Append(applications,
                       [student_id |-> s, position_id |-> p, status |-> "Pending"])
                /\ last' = Response("apply", s, p, "Application submitted.")
    /\ UNCHANGED <<students, employers, faculty, job_positions, selections,
                   coop_eligibility, coop_records, outbox, evalc, console_ok, nreq>>

NextRace ==
    \/ \E form \in StudentForms : register_student(form)
    \/ \E form \in EmployerForms : register_employer(form)
    \/ \E e \in Ids(employers), form \in PositionForms : employer_post(e, form)
    \/ \E s \in Ids(students), p \in Ids(job_positions) : apply_query(s, p)
    \/ \E r \in DOMAIN inflight : apply_commit(r)
    \/ \E s \in Ids(students), a \in Ids(applications) : withdraw_application(s, a)

SpecRace == Init /\ [][NextRace]_vars

\* Requests of a pair that found no application and have inserted theirs
Inserted(s, p) ==
    { r \in DOMAIN inflight : /\ inflight[r].student_id = s
                              /\ inflight[r].position_id = p
                              /\ ~inflight[r].existing
                              /\ inflight[r].done }

\* C22: the duplicate check of apply reads the applications as they are when
\* it runs and writes nothing; the insert that follows acts on that earlier
\* answer without looking again; so a (student, position) pair has two
\* non-withdrawn applications only after two requests both passed the check
\* and both inserted.
C22_ApplyCheckThenAct ==
    /\ [][Len(inflight') = Len(inflight) + 1
             => LET q == inflight'[Len(inflight')]
                IN  /\ q.existing = (ApplicationsOf(q.student_id, q.position_id) # {})
                    /\ applications' = applications]_vars
    /\ [][\A r \in DOMAIN inflight :
             (~inflight[r].done /\ inflight'[r].done)
                 => IF inflight[r].existing
                    THEN applications' = applications
                    ELSE applications' = Append(applications,
                             [student_id |-> inflight[r].student_id,
                              position_id |-> inflight[r].position_id,
                              status |-> "Pending"])]_vars
    /\ [](\A s \in Ids(students), p \in Ids(job_positions) :
             Cardinality(NonWithdrawn(s, p)) <= Cardinality(Inserted(s, p)))

\* Two requests of one student for one position both passed the check and
\* both inserted: the pair has two non-withdrawn applications
C22_Witness ==
    \E s \in Ids(students), p \in Ids(job_positions) :
        /\ Cardinality(NonWithdrawn(s, p)) = 2
        /\ Cardinality(Inserted(s, p)) = 2

====
